---- MODULE Spec2Model ----
(***************************************************************************)
(* A model of bsearch: prefix binary search over line-ordered, bytewise    *)
(* sorted datasets, with a block index (bsearch.go and index.go).          *)
(* Bytes are natural numbers (their ASCII codes), byte slices are          *)
(* sequences, and a Go slice with spare capacity is a record [mem, len]    *)
(* whose capacity is Len(mem).                                             *)
(***************************************************************************)
EXTENDS Integers, Sequences, FiniteSets, TLC

VARIABLES r, mtime, sibling, filepath, blocksize, buf, bufOffset, dbuf,
          dbufOffset, Index, matchLE, call, ret

vars == <<r, mtime, sibling, filepath, blocksize, buf, bufOffset, dbuf,
          dbufOffset, Index, matchLE, call, ret>>

(***************************************************************************)
(* Bounds of the model.                                                    *)
(***************************************************************************)
\* the default blocksize of searcher and index builder, scaled down
defaultBlocksize == 6
\* the blocksize option of an index built ahead of time by line-scan
LineBlocksize == 5
\* a second, wider blocksize option for such an index
WideBlocksize == 9
\* the largest number of records in a dataset
MaxLines == 4
\* the largest line cap n passed to LinesN
MaxN == 2
\* the longest operand handed to the comparators
MaxCmpLen == 2

(***************************************************************************)
(* Bytes.                                                                  *)
(***************************************************************************)
NL == 10
Comma == 44
Nil == "nil"

Min(a, b) == IF a < b THEN a ELSE b

\* bytes.Compare / strings.Compare / Go's string operators: lexicographic
\* order on byte sequences, as -1, 0 or 1
bytesCompare(a, b) ==
    LET m == Min(Len(a), Len(b))
        D == {i \in 1..m : a[i] # b[i]}
    IN  IF D = {}
        THEN (IF Len(a) < Len(b) THEN -1 ELSE IF Len(a) > Len(b) THEN 1 ELSE 0)
        ELSE LET i == CHOOSE j \in D : \A h \in D : j <= h
             IN  IF a[i] < b[i] THEN -1 ELSE 1

\* bytes.IndexByte: the 0-based index of the first c in s, or -1
IndexByte(s, c) ==
    LET P == {i \in 1..Len(s) : s[i] = c}
    IN  IF P = {} THEN -1 ELSE (CHOOSE i \in P : \A h \in P : i <= h) - 1

\* bytes.Index: the 0-based index of the first occurrence of sep in s, or -1
BytesIndex(s, sep) ==
    LET P == {i \in 1..(Len(s) - Len(sep) + 1) :
                 SubSeq(s, i, i + Len(sep) - 1) = sep}
    IN  IF P = {} THEN -1 ELSE (CHOOSE i \in P : \A h \in P : i <= h) - 1

\* the Go slice expression s[lo:hi] on a sequence (0-based, hi exclusive)
Slice(s, lo, hi) == SubSeq(s, lo + 1, hi)

\* Op applied to the value of v: an assignment to a local variable, which
\* evaluates its right-hand side once
Eval(v, Op(_)) == CHOOSE y \in { Op(x) : x \in { v } } : TRUE

(***************************************************************************)
(* The comparators.                                                        *)
(***************************************************************************)
PrefixCompareNoShort(bufa, b) ==
    IF Len(bufa) < Len(b)
    THEN bytesCompare(bufa, Slice(b, 0, Len(bufa)))
    ELSE bytesCompare(Slice(bufa, 0, Len(b)), b)

PrefixCompare(bufa, b) ==
    IF Len(bufa) < Len(b)
    THEN LET cmp == bytesCompare(bufa, Slice(b, 0, Len(bufa)))
         IN  IF cmp = 0 THEN -1 ELSE cmp
    ELSE bytesCompare(Slice(bufa, 0, Len(b)), b)

PrefixCompareString(bufa, b) ==
    LET sa == bufa
        sb == b
    IN  IF Len(sa) < Len(sb)
        THEN LET sb2 == Slice(sb, 0, Len(sa))
             IN  IF bytesCompare(sa, sb2) < 0 THEN -1
                 ELSE IF sa = sb2 THEN -1
                 ELSE 1
        ELSE LET sa2 == Slice(sa, 0, Len(sb))
             IN  IF bytesCompare(sa2, sb) < 0 THEN -1
                 ELSE IF sa2 = sb THEN 0
                 ELSE 1

prefixCompareString(a, b) ==
    IF Len(a) < Len(b)
    THEN LET cmp == bytesCompare(a, Slice(b, 0, Len(a)))
         IN  IF cmp = 0 THEN -1 ELSE cmp
    ELSE bytesCompare(Slice(a, 0, Len(b)), b)

\* the byte-slice comparator index.go calls; its body is not in the sources
prefixCompare(a, b) == PrefixCompare(a, b)

(***************************************************************************)
(* The dataset reader.                                                     *)
(***************************************************************************)
\* io.ReaderAt.ReadAt on a file holding data, into a buffer of n bytes at
\* offset pos: the bytes read, their count, and whether io.EOF came back
ReadAt(data, n, pos) ==
    LET hi == Min(pos + n, Len(data))
        bs == IF pos >= Len(data) THEN << >> ELSE SubSeq(data, pos + 1, hi)
    IN  [bytes |-> bs, n |-> Len(bs), eof |-> Len(bs) < n]

(***************************************************************************)
(* The index model and the index builder.                                  *)
(***************************************************************************)
IndexEntry(key, offset, length) ==
    [Key |-> key, Offset |-> offset, Length |-> length]

\* the zero value IndexEntry{}
NoEntry == IndexEntry(<< >>, 0, 0)

ErrKeyExceedsBlocksize == "key length exceeds blocksize"
ErrIndexEmpty == "index contains no entries"
ErrNotFound == "not found"
ErrCompressedNoIndex == "compressed file without an index file"
ErrIndexEntryNotFound == "index entry not found"
ErrSortViolation == "key sort violation"
ErrNoDelimiter == "line without delimiter found"
ErrFirstBlockNoNewline == "Missing first block nlidx handling not yet implemented"
ErrTooLong == "bufio.Scanner: token too long"
ErrShortRead == "error reading block entry"
ErrDecompress == "zstd: decompression failed"
\* not an error value: the call recurses or loops for ever
Diverges == "diverges"
\* not an error value: the call panics (slice bounds out of range)
Panics == "panic"

\* processBlock on the chunk data[blockPosition, blockPosition+bytesread),
\* read into a buffer of buflen bytes.  A retry that reads the same bytes at
\* the same blockPosition is the call it came from, and so repeats itself
\* for ever.
RECURSIVE processBlock(_, _, _, _, _)
processBlock(data, buflen, bytesread, blockPosition, delim) ==
    LET retry(bp2, n2) ==
            IF bp2 = blockPosition /\ n2 = bytesread
            THEN [entry |-> NoEntry, bp |-> blockPosition, err |-> Diverges]
            ELSE processBlock(data, buflen, n2, bp2, delim)
        chunk == SubSeq(data, blockPosition + 1, blockPosition + bytesread)
        nlidx == IF blockPosition > 0 THEN IndexByte(chunk, NL) ELSE -1
        didx0 == BytesIndex(Slice(chunk, nlidx + 1, bytesread), delim)
        didx  == didx0 + nlidx + 1
        entry == IndexEntry(Slice(chunk, nlidx + 1, didx),
                            blockPosition + nlidx + 1,
                            bytesread - nlidx - 1)
        nl1   == IndexByte(chunk, NL)
    IN  IF blockPosition > 0 /\ nlidx = -1
        THEN \* no newline in the block: skip the block entirely
             Eval(blockPosition + bytesread, LAMBDA bp2 :
                 Eval(ReadAt(data, buflen, bp2).n, LAMBDA n2 :
                     retry(bp2, n2)))
        ELSE IF didx0 = -1
        THEN IF nlidx = -1
             THEN [entry |-> NoEntry, bp |-> blockPosition,
                   err |-> ErrKeyExceedsBlocksize]
             ELSE \* partial line: re-read from nlidx
                  Eval(blockPosition + nlidx, LAMBDA bp2 :
                      Eval(ReadAt(data, buflen, bp2).n, LAMBDA n2 :
                          retry(bp2, n2)))
        ELSE IF IndexByte(Slice(chunk, nlidx + 1, didx), NL) # -1
        THEN [entry |-> NoEntry, bp |-> blockPosition, err |-> ErrNoDelimiter]
        ELSE IF blockPosition = 0
        THEN \* first block only: check for a header
             IF nl1 = -1
             THEN [entry |-> NoEntry, bp |-> blockPosition,
                   err |-> ErrFirstBlockNoNewline]
             ELSE Eval(processBlock(data, bytesread - nl1, bytesread - nl1,
                                    blockPosition + nl1, delim),
                       LAMBDA sub :
                      IF sub.err # Nil
                      THEN [entry |-> NoEntry, bp |-> blockPosition + nl1,
                            err |-> sub.err]
                      ELSE IF bytesCompare(entry.Key, sub.entry.Key) > 0
                      THEN [entry |-> sub.entry, bp |-> sub.bp, err |-> Nil]
                      ELSE [entry |-> entry, bp |-> blockPosition, err |-> Nil])
        ELSE [entry |-> entry, bp |-> blockPosition, err |-> Nil]

\* the length fix-up left out: every entry keeps the length of its chunk
ResetLengthsNone(list) == list

\* the length fix-up of generateBlockIndex: all but the last entry end where
\* the next one starts
ResetLengths(list) ==
    [i \in 1..Len(list) |->
        IF i < Len(list)
        THEN [list[i] EXCEPT !.Length = list[i + 1].Offset - list[i].Offset]
        ELSE list[i]]

\* the header test left out
skippedHeaderNever(firstBlock, entry) == FALSE

\* generateBlockIndex: a first entry that is not at offset zero means a
\* header was skipped
skippedHeader(firstBlock, entry) == firstBlock /\ entry.Offset > 0

\* the read loop of generateBlockIndex
RECURSIVE blockIndexLoop(_, _, _, _, _, _)
blockIndexLoop(index, data, list, blockPosition, firstBlock, prev) ==
    Eval(ReadAt(data, index.Blocksize, blockPosition), LAMBDA rd :
    Eval(processBlock(data, index.Blocksize, rd.n, blockPosition,
                      index.Delimiter), LAMBDA pb :
    LET c  == bytesCompare(prev.Key, pb.entry.Key)
        list2 == IF c = 0 /\ prev.Offset = pb.entry.Offset
                 THEN list ELSE Append(list, pb.entry)
        index2 == IF skippedHeader(firstBlock, pb.entry)
                  THEN [index EXCEPT !.Header = TRUE] ELSE index
        finish(ix, l) ==
            IF Len(l) = 0
            THEN [index |-> ix, err |-> ErrIndexEmpty]
            ELSE [index |-> [ix EXCEPT !.KeysUnique = FALSE,
                                       !.List = ResetLengths(l),
                                       !.Length = Len(l)],
                  err |-> Nil]
    IN  IF rd.n > 0
        THEN IF pb.err # Nil THEN [index |-> index, err |-> pb.err]
             ELSE IF c > 0 THEN [index |-> index, err |-> ErrSortViolation]
             ELSE IF rd.eof THEN finish(index2, list2)
             ELSE Eval(<<index2, list2>>, LAMBDA t :
                      blockIndexLoop(t[1], data, t[2], pb.bp + rd.n, FALSE,
                                     pb.entry))
        ELSE IF rd.eof THEN finish(index, list)
        ELSE blockIndexLoop(index, data, list, blockPosition, FALSE, prev)))

generateBlockIndex(index, data) ==
    blockIndexLoop(index, data, << >>, 0, TRUE, NoEntry)

\* the tokens bufio.Scanner yields with the default ScanLines split: the
\* lines of data without their newline, a final unterminated line included
RECURSIVE ScanLines(_)
ScanLines(data) ==
    IF data = << >> THEN << >>
    ELSE LET nl == IndexByte(data, NL)
         IN  IF nl = -1 THEN << data >>
             ELSE << Slice(data, 0, nl) >> \o
                  Eval(Slice(data, nl + 1, Len(data)), LAMBDA rest :
                      ScanLines(rest))

\* elt[0] of bytes.SplitN(line, delim, 2)
SplitKey(line, delim) ==
    LET d == BytesIndex(line, delim)
    IN  IF d = -1 THEN line ELSE Slice(line, 0, d)

\* the scanner loop of generateLineIndex, from token i on; st holds the
\* loop's local variables
RECURSIVE lineIndexLoop(_, _, _, _)
lineIndexLoop(index, lines, i, st) ==
    IF i > Len(lines)
    THEN \* scanner.Scan() returned false without error
         IF Len(st.list) = 0
         THEN [index |-> index, err |-> ErrIndexEmpty]
         ELSE LET n == Len(st.list)
                  list == [st.list EXCEPT ![n].Length =
                              st.blockPosition - st.list[n].Offset]
              IN  [index |-> [index EXCEPT
                                 !.KeysIndexFirst = index.KeysUnique,
                                 !.List = list,
                                 !.Length = Len(list)],
                   err |-> Nil]
    ELSE
    LET line == lines[i]
        key  == SplitKey(line, index.Delimiter)
        c    == bytesCompare(st.prevKey, key)
        reset == c = 1 /\ st.blockNumber = 0 /\ ~index.Header
        index2 == IF reset THEN [index EXCEPT !.Header = TRUE]
                  ELSE IF c = 0 THEN [index EXCEPT !.KeysUnique = FALSE]
                  ELSE index
        list1 == IF reset THEN << >> ELSE st.list
        blockNumber1 == IF reset THEN -1 ELSE st.blockNumber
        currentBlockNumber == st.blockPosition \div index.Blocksize
        n1 == Len(list1)
        list2 == IF currentBlockNumber > blockNumber1
                 THEN Append(
                        IF n1 > 0
                        THEN [list1 EXCEPT ![n1].Length =
                                 st.blockPosition - list1[n1].Offset]
                        ELSE list1,
                        IndexEntry(key, st.blockPosition, 0))
                 ELSE list1
        blockNumber2 == IF currentBlockNumber > blockNumber1
                        THEN currentBlockNumber ELSE blockNumber1
    IN  IF Len(line) + 1 > index.Blocksize
        THEN \* the token does not fit the scanner's buffer
             [index |-> index, err |-> ErrTooLong]
        ELSE IF st.skipHeader
        THEN Eval([st EXCEPT !.skipHeader = FALSE,
                             !.blockPosition = st.blockPosition + Len(line) + 1],
                  LAMBDA st2 : lineIndexLoop(index, lines, i + 1, st2))
        ELSE IF c = 1 /\ ~reset
        THEN [index |-> index, err |-> ErrSortViolation]
        ELSE Eval(<<index2,
                    [list |-> list2,
                     blockPosition |-> st.blockPosition + Len(line) + 1,
                     blockNumber |-> blockNumber2,
                     prevKey |-> key,
                     skipHeader |-> FALSE]>>,
                  LAMBDA t : lineIndexLoop(t[1], lines, i + 1, t[2]))

generateLineIndex(index, data) ==
    Eval(ScanLines(data), LAMBDA lines :
        lineIndexLoop([index EXCEPT !.KeysUnique = TRUE], lines, 1,
                      [list |-> << >>, blockPosition |-> 0, blockNumber |-> -1,
                       prevKey |-> << >>, skipHeader |-> index.Header]))

LineScan == "LineScan"
BlockScan == "BlockScan"

\* deriveDelimiter: the delimiter of a .csv or .csv.zst path
deriveDelimiter(path) == << Comma >>

\* the directory the program runs in
Cwd == "/d/"

\* filepath.Abs: the model's paths are relative, and are joined to Cwd
Abs(path) == Cwd \o path

\* epoch: the modification time of the dataset at path, in seconds
epoch(path) == mtime

indexVersion == 2

\* NewIndexOptions on a dataset holding data; opt is [Blocksize, Header,
\* ScanMode], a Blocksize of 0 standing for the option left unset
NewIndexOptions(path, data, opt) ==
    LET index == [Blocksize |-> IF opt.Blocksize > 0 THEN opt.Blocksize
                                ELSE defaultBlocksize,
                  Delimiter |-> deriveDelimiter(Abs(path)),
                  Epoch |-> epoch(Abs(path)),
                  Filepath |-> Abs(path),
                  Header |-> opt.Header,
                  KeysIndexFirst |-> FALSE,
                  KeysUnique |-> FALSE,
                  Length |-> 0,
                  List |-> << >>,
                  Version |-> indexVersion]
    IN  Eval(IF opt.ScanMode = LineScan
             THEN generateLineIndex(index, data)
             ELSE generateBlockIndex(index, data),
             LAMBDA res :
                 IF res.err # Nil THEN [index |-> index, err |-> res.err]
                 ELSE res)

\* NewIndex: NewIndexOptions with the zero IndexOptions
NewIndex(path, data) ==
    NewIndexOptions(path, data,
                    [Blocksize |-> 0, Header |-> FALSE, ScanMode |-> BlockScan])

(***************************************************************************)
(* The block locator.                                                      *)
(***************************************************************************)
\* the binary search loop of blockEntryLE over list (positions 0-based)
RECURSIVE blockEntryLELoop(_, _, _, _)
blockEntryLELoop(list, keystr, begin, end) ==
    IF end - begin > 0
    THEN LET m0  == ((end - begin) \div 2) + begin
             mid == IF m0 = begin THEN m0 + 1 ELSE m0
             cmp == prefixCompareString(list[mid + 1].Key, keystr)
         IN  IF cmp <= 0
             THEN Eval(mid, LAMBDA b : blockEntryLELoop(list, keystr, b, end))
             ELSE IF end = mid THEN begin
             ELSE Eval(mid, LAMBDA e : blockEntryLELoop(list, keystr, begin, e))
    ELSE begin

\* blockEntryLE; the first entry's key is compared with Go's string >
blockEntryLE(index, key) ==
    IF bytesCompare(index.List[1].Key, key) > 0
    THEN [e |-> 0, entry |-> NoEntry, err |-> ErrIndexEntryNotFound]
    ELSE Eval(blockEntryLELoop(index.List, key, 0, Len(index.List) - 1),
              LAMBDA begin : [e |-> begin, entry |-> index.List[begin + 1],
                              err |-> Nil])

\* a locator answering with the last entry whose key compares less than or
\* equal to key, or the first entry
blockEntryLEOrFirst(index, key) ==
    Eval(blockEntryLELoop(index.List, key, 0, Len(index.List) - 1),
         LAMBDA begin : [e |-> begin, entry |-> index.List[begin + 1]])

\* blockEntryLT answering with the first entry whatever the key
blockEntryLTFirst(index, key) == [e |-> 0, entry |-> index.List[1]]

\* the binary search loop of blockEntryLT over list (positions 0-based)
RECURSIVE blockEntryLTLoop(_, _, _, _)
blockEntryLTLoop(list, key, begin, end) ==
    IF end - begin > 0
    THEN LET m0  == ((end - begin) \div 2) + begin
             mid == IF m0 = begin THEN m0 + 1 ELSE m0
             cmp == prefixCompare(list[mid + 1].Key, key)
         IN  IF cmp = -1
             THEN Eval(mid, LAMBDA b : blockEntryLTLoop(list, key, b, end))
             ELSE IF end = mid THEN begin
             ELSE Eval(mid, LAMBDA e : blockEntryLTLoop(list, key, begin, e))
    ELSE begin

blockEntryLT(index, key) ==
    Eval(blockEntryLTLoop(index.List, key, 0, Len(index.List) - 1),
         LAMBDA begin : [e |-> begin, entry |-> index.List[begin + 1]])

blockEntryN(index, n) ==
    IF n < 0 \/ n >= Len(index.List)
    THEN [entry |-> NoEntry, ok |-> FALSE]
    ELSE [entry |-> index.List[n + 1], ok |-> TRUE]

\* Index.BlockEntry, the locator the searcher calls: the last entry with a
\* key less than key, or the first entry
BlockEntry(index, key) == blockEntryLT(index, key)

\* Index.BlockEntryN, the enumerator the searcher calls
BlockEntryN(index, n) == blockEntryN(index, n)

(***************************************************************************)
(* The block buffers.  A searcher s is the record of the Searcher fields.  *)
(***************************************************************************)
\* make([]byte, n)
MakeBytes(n) == [mem |-> [i \in 1..n |-> 0], len |-> n]

\* the bytes of a slice up to its length
Bytes(b) == SubSeq(b.mem, 1, b.len)

\* a slice after n bytes bs were copied to its start
Filled(b, bs) ==
    [b EXCEPT !.mem = bs \o SubSeq(b.mem, Len(bs) + 1, Len(b.mem))]

\* readBlockEntry keeping the offset it remembers when the read falls short
readBlockEntryKeepsOffset(s, entry) ==
    IF s.bufOffset = entry.Offset
    THEN [s |-> s, err |-> Nil]
    ELSE LET b1 == IF entry.Length > Len(s.buf.mem)
                   THEN MakeBytes(entry.Length)
                   ELSE [s.buf EXCEPT !.len = entry.Length]
             rd == ReadAt(s.r, b1.len, entry.Offset)
             b2 == Filled(b1, rd.bytes)
         IN  IF rd.n < entry.Length
             THEN [s |-> [s EXCEPT !.buf = b2], err |-> ErrShortRead]
             ELSE [s |-> [s EXCEPT !.buf = b2, !.bufOffset = entry.Offset],
                   err |-> Nil]

readBlockEntry(s, entry) ==
    IF s.bufOffset = entry.Offset
    THEN [s |-> s, err |-> Nil]
    ELSE LET b1 == IF entry.Length > Len(s.buf.mem)
                   THEN MakeBytes(entry.Length)
                   ELSE [s.buf EXCEPT !.len = entry.Length]
             rd == ReadAt(s.r, b1.len, entry.Offset)
             b2 == Filled(b1, rd.bytes)
         IN  IF rd.n < entry.Length
             THEN [s |-> [s EXCEPT !.buf = b2, !.bufOffset = -1],
                   err |-> ErrShortRead]
             ELSE [s |-> [s EXCEPT !.buf = b2, !.bufOffset = entry.Offset],
                   err |-> Nil]

\* one zstd frame: a magic byte, the content size, the encoded content
ZMagic == 40
ZCompress(bs) == << ZMagic, Len(bs) >> \o [i \in 1..Len(bs) |-> 255 - bs[i]]

\* zstd.Decompress(dst, src): dst is reused when its capacity suffices
ZDecompress(dst, src) ==
    IF Len(src) < 2 \/ src[1] # ZMagic \/ src[2] # Len(src) - 2
    THEN [buf |-> dst, err |-> ErrDecompress]
    ELSE LET out == [i \in 1..src[2] |-> 255 - src[i + 2]]
             d1  == IF Len(dst.mem) >= Len(out)
                    THEN [dst EXCEPT !.len = Len(out)]
                    ELSE MakeBytes(Len(out))
         IN  [buf |-> Filled(d1, out), err |-> Nil]

decompressBlockEntry(s, entry) ==
    IF s.dbufOffset = entry.Offset
    THEN [s |-> s, err |-> Nil]
    ELSE Eval(readBlockEntry(s, entry), LAMBDA rb :
             IF rb.err # Nil THEN rb
             ELSE Eval(ZDecompress(rb.s.dbuf, Bytes(rb.s.buf)), LAMBDA z :
             IF z.err # Nil
             THEN [s |-> [rb.s EXCEPT !.dbuf = z.buf, !.dbufOffset = -1],
                   err |-> z.err]
             ELSE [s |-> [rb.s EXCEPT !.dbuf = z.buf,
                                      !.dbufOffset = entry.Offset],
                   err |-> Nil]))

(***************************************************************************)
(* The line scanner.                                                       *)
(***************************************************************************)
\* buf[offset : offset+n]: legal up to the capacity of buf, a panic beyond
getNBytesFrom(b, offset, n) ==
    IF offset + n > Len(b.mem)
    THEN [panic |-> TRUE, bytes |-> << >>]
    ELSE [panic |-> FALSE, bytes |-> Slice(b.mem, offset, offset + n)]

\* the loop of scanLineOffset from offset on
RECURSIVE scanLineOffsetLoop(_, _, _, _, _)
scanLineOffsetLoop(le, b, k, offset, trailing) ==
    LET done(terminate) ==
            IF le /\ trailing > -1
            THEN [offset |-> trailing, terminate |-> terminate, panic |-> FALSE]
            ELSE [offset |-> -1, terminate |-> terminate, panic |-> FALSE]
    IN  IF offset < b.len
        THEN LET p == getNBytesFrom(b, offset, Len(k))
                 cmp == PrefixCompare(p.bytes, k)
                 nlidx == IndexByte(Slice(b.mem, offset, b.len), NL)
             IN  IF p.panic
                 THEN [offset |-> -1, terminate |-> FALSE, panic |-> TRUE]
                 ELSE IF cmp = 0
                 THEN [offset |-> offset, terminate |-> FALSE, panic |-> FALSE]
                 ELSE IF cmp = 1 THEN done(TRUE)
                 ELSE IF nlidx = -1 THEN done(FALSE)
                 ELSE Eval(offset + nlidx + 1, LAMBDA next :
                          scanLineOffsetLoop(le, b, k, next, offset))
        ELSE done(FALSE)

scanLineOffset(s, b, k) == scanLineOffsetLoop(s.matchLE, b, k, 0, -1)

\* the loop of scanLinesMatching from offset on
RECURSIVE scanLinesMatchingLoop(_, _, _, _, _)
scanLinesMatchingLoop(buffer, b, n, offset, lines) ==
    IF offset < buffer.len
    THEN IF n > 0 /\ Len(lines) >= n
         THEN [lines |-> SubSeq(lines, 1, n), terminate |-> TRUE,
               panic |-> FALSE]
         ELSE LET p == getNBytesFrom(buffer, offset, Len(b))
                  cmp == PrefixCompare(p.bytes, b)
                  nlidx == IndexByte(Slice(buffer.mem, offset, buffer.len), NL)
              IN  IF p.panic
                  THEN [lines |-> lines, terminate |-> FALSE, panic |-> TRUE]
                  ELSE IF cmp < 0
                  THEN IF nlidx = -1
                       THEN [lines |-> lines, terminate |-> FALSE,
                             panic |-> FALSE]
                       ELSE Eval(offset + nlidx + 1, LAMBDA next :
                                scanLinesMatchingLoop(buffer, b, n, next,
                                                      lines))
                  ELSE IF cmp = 0
                  THEN IF nlidx = -1
                       THEN [lines |-> Append(lines,
                                Slice(buffer.mem, offset, buffer.len)),
                             terminate |-> FALSE, panic |-> FALSE]
                       ELSE Eval(<<offset + nlidx + 1,
                                   Append(lines, Slice(buffer.mem, offset,
                                                       offset + nlidx))>>,
                                 LAMBDA t :
                                scanLinesMatchingLoop(buffer, b, n, t[1],
                                                      t[2]))
                  ELSE [lines |-> lines, terminate |-> TRUE, panic |-> FALSE]
    ELSE [lines |-> lines, terminate |-> FALSE, panic |-> FALSE]

scanLinesMatching(s, buffer, b, n) ==
    Eval(scanLineOffset(s, buffer, b), LAMBDA so :
        IF so.panic
        THEN [lines |-> << >>, terminate |-> FALSE, panic |-> TRUE]
        ELSE IF so.offset = -1 \/ so.terminate
        THEN [lines |-> << >>, terminate |-> so.terminate, panic |-> FALSE]
        ELSE scanLinesMatchingLoop(buffer, b, n, so.offset, << >>))

(***************************************************************************)
(* The searcher.                                                           *)
(***************************************************************************)
\* the Index field of a searcher is a pointer: no index, or << index >>
NilIndex == << >>

CompressedPath == "data.csv.zst"
PlainPath == "data.csv"

isCompressed(s) == s.filepath = CompressedPath

\* the delimiter dropped from the search prefix
searchPrefixNoDelimiter(s, k) == k

\* the bytes a key search scans for: the key with the delimiter appended
searchPrefix(s, k) == k \o s.Index[1].Delimiter

\* the block loop of scanIndexedLines, entered with entry number e loaded
\* next
RECURSIVE scanIndexedLoop(_, _, _, _, _, _)
scanIndexedLoop(s, k, n, e, entry, lines) ==
    Eval(readBlockEntry(s, entry), LAMBDA rb :
    Eval(scanLinesMatching(rb.s, rb.s.buf, searchPrefix(s, k), n),
         LAMBDA sl :
    LET lines2 == IF Len(sl.lines) > 0 THEN lines \o sl.lines ELSE lines
        nx == BlockEntryN(s.Index[1], e + 1)
        finish(l) == [s |-> rb.s, lines |-> l,
                      err |-> IF Len(l) = 0 THEN ErrNotFound ELSE Nil]
    IN  IF rb.err # Nil THEN [s |-> rb.s, lines |-> << >>, err |-> rb.err]
        ELSE IF sl.panic THEN [s |-> rb.s, lines |-> << >>, err |-> Panics]
        ELSE IF sl.terminate THEN finish(lines2)
        ELSE IF ~nx.ok THEN finish(lines2)
        ELSE Eval(<<nx.entry, lines2>>, LAMBDA t :
                 scanIndexedLoop(rb.s, k, n, e + 1, t[1], t[2]))))

scanIndexedLines(s, k, n) ==
    Eval(BlockEntry(s.Index[1], k), LAMBDA be :
        scanIndexedLoop(s, k, n, be.e, be.entry, << >>))

\* the block loop of scanCompressedLines; e is never advanced, so every
\* spill reloads entry e+1.  fuel bounds the loop: an iteration that reloads
\* the entry it has just scanned repeats itself for ever.
RECURSIVE scanCompressedLoop(_, _, _, _, _, _, _)
scanCompressedLoop(s, k, n, e, entry, lines, fuel) ==
    Eval(decompressBlockEntry(s, entry), LAMBDA db :
    Eval(scanLinesMatching(db.s, db.s.dbuf, searchPrefix(s, k), n),
         LAMBDA sl :
    LET lines2 == IF Len(sl.lines) > 0 THEN lines \o sl.lines ELSE lines
        nx == BlockEntryN(s.Index[1], e + 1)
    IN  IF fuel = 0 THEN [s |-> s, lines |-> << >>, err |-> Diverges]
        ELSE IF db.err # Nil THEN [s |-> db.s, lines |-> << >>, err |-> db.err]
        ELSE IF sl.panic THEN [s |-> db.s, lines |-> << >>, err |-> Panics]
        ELSE IF sl.terminate THEN [s |-> db.s, lines |-> lines2, err |-> Nil]
        ELSE IF ~nx.ok THEN [s |-> db.s, lines |-> lines2, err |-> Nil]
        ELSE Eval(<<nx.entry, lines2, fuel - 1>>, LAMBDA t :
                 scanCompressedLoop(db.s, k, n, e, t[1], t[2], t[3]))))

scanCompressedLines(s, k, n) ==
    Eval(BlockEntry(s.Index[1], k), LAMBDA be :
        scanCompressedLoop(s, k, n, be.e, be.entry, << >>,
                           Len(s.Index[1].List) + 2))

LinesN(s, k, n) ==
    IF isCompressed(s)
    THEN IF s.Index = NilIndex
         THEN [s |-> s, lines |-> << >>, err |-> ErrCompressedNoIndex]
         ELSE scanCompressedLines(s, k, n)
    ELSE IF s.Index = NilIndex
    THEN \* build and use a temporary index
         Eval(NewIndex(s.filepath, s.r), LAMBDA ni :
             IF ni.err # Nil
             THEN [s |-> s, lines |-> << >>, err |-> ni.err]
             ELSE scanIndexedLines([s EXCEPT !.Index = << ni.index >>], k, n))
    ELSE scanIndexedLines(s, k, n)

Lines(s, b) == LinesN(s, b, 0)

Line(s, k) ==
    Eval(LinesN(s, k, 1), LAMBDA res :
        IF res.err # Nil \/ Len(res.lines) < 1
        THEN [s |-> res.s, line |-> << >>, err |-> res.err]
        ELSE [s |-> res.s, line |-> res.lines[1], err |-> Nil])

\* NewSearcher on a file holding data, with the sibling index ix (or
\* NilIndex)
NewSearcher(path, data, ix) ==
    [r |-> data,
     filepath |-> path,
     blocksize |-> defaultBlocksize,
     buf |-> MakeBytes(defaultBlocksize + 1),
     bufOffset |-> -1,
     dbuf |-> MakeBytes(0),
     dbufOffset |-> -1,
     Index |-> ix,
     matchLE |-> FALSE]

(***************************************************************************)
(* Datasets: sorted records key,value with an optional header line and an  *)
(* optional final newline.                                                 *)
(***************************************************************************)
KeySet == { <<98>>, <<98, 99>>, <<99>> }
\* the values a key comes with: two for the first key, so that the lines of
\* a run differ, one for the others
ValSet(k) == IF k = <<98>> THEN { <<120>>, <<121>> } ELSE { <<120>> }
\* the keys looked up: the dataset's keys, one sorting before them all and a
\* long one sorting after them all
SearchKeys == KeySet \cup { <<97>>, <<99, 99, 99, 99>> }
HeaderLine == <<122, 44, 122>>

LineSet == UNION { { k \o << Comma >> \o v : v \in ValSet(k) } : k \in KeySet }

\* the key field of a line: the bytes before the first delimiter
KeyOf(line) == SplitKey(line, << Comma >>)

Sorted(ls) == \A i \in 1..(Len(ls) - 1) : bytesCompare(ls[i], ls[i + 1]) <= 0

RecordSeqs ==
    { ls \in UNION { [1..n -> LineSet] : n \in 1..MaxLines } : Sorted(ls) }

\* the file holding the lines ls, the last line with or without its newline
RECURSIVE Join(_, _)
Join(ls, finalNL) ==
    IF ls = << >> THEN << >>
    ELSE IF Len(ls) = 1
    THEN (IF finalNL THEN Head(ls) \o << NL >> ELSE Head(ls))
    ELSE Head(ls) \o << NL >> \o Join(Tail(ls), finalNL)

Datasets ==
    { Join(h \o ls, nl) :
        ls \in RecordSeqs, h \in { << >>, << HeaderLine >> }, nl \in BOOLEAN }

\* the options an index file beside the dataset may have been built with
IndexBuilds ==
    { [Blocksize |-> bs, Header |-> FALSE, ScanMode |-> LineScan] :
        bs \in { LineBlocksize, WideBlocksize } }

\* the sibling indexes a searcher can find for data: none, or one that
\* NewIndexOptions built without error
SiblingIndexes(data) ==
    { NilIndex } \cup
    { << NewIndexOptions(PlainPath, data, opt).index >> :
        opt \in { o \in IndexBuilds :
                    NewIndexOptions(PlainPath, data, o).err = Nil } }

(***************************************************************************)
(* What the dataset holds, read top to bottom.                             *)
(***************************************************************************)
\* the records of data: its lines, less a first line that is a header (its
\* key sorts after the second line's key)
Records(data) ==
    LET ls == ScanLines(data)
    IN  IF Len(ls) >= 2 /\ bytesCompare(KeyOf(ls[1]), KeyOf(ls[2])) > 0
        THEN Tail(ls) ELSE ls

\* the lines with key k, in dataset order
Run(data, k) == SelectSeq(Records(data), LAMBDA l : KeyOf(l) = k)

Occurs(data, k) == Run(data, k) # << >>

\* the first n elements of a sequence, all of them when n = 0
FirstN(sq, n) == IF n = 0 \/ n >= Len(sq) THEN sq ELSE SubSeq(sq, 1, n)

\* the entries of the attached index whose block holds a line with key k
BlocksOf(k) ==
    IF Index = NilIndex THEN {}
    ELSE { i \in 1..Len(Index[1].List) :
             LET en == Index[1].List[i]
                 blk == SubSeq(r, en.Offset + 1,
                               Min(en.Offset + en.Length, Len(r)))
             IN  \E l \in 1..Len(ScanLines(blk)) :
                    KeyOf(ScanLines(blk)[l]) = k }

(***************************************************************************)
(* The state machine: a searcher and the calls made on it.                 *)
(***************************************************************************)
Searcher ==
    [r |-> r, filepath |-> filepath, blocksize |-> blocksize, buf |-> buf,
     bufOffset |-> bufOffset, dbuf |-> dbuf, dbufOffset |-> dbufOffset,
     Index |-> Index, matchLE |-> matchLE]

\* the searcher's fields become those of s; the dataset file r and the index
\* file beside it (sibling: the index it holds, or NilIndex) stay as they are
Becomes(s) ==
    /\ r' = s.r
    /\ mtime' = mtime
    /\ sibling' = sibling
    /\ filepath' = s.filepath
    /\ blocksize' = s.blocksize
    /\ buf' = s.buf
    /\ bufOffset' = s.bufOffset
    /\ dbuf' = s.dbuf
    /\ dbufOffset' = s.dbufOffset
    /\ Index' = s.Index
    /\ matchLE' = s.matchLE

Starts(s) ==
    /\ r = s.r
    /\ filepath = s.filepath
    /\ blocksize = s.blocksize
    /\ buf = s.buf
    /\ bufOffset = s.bufOffset
    /\ dbuf = s.dbuf
    /\ dbufOffset = s.dbufOffset
    /\ Index = s.Index
    /\ matchLE = s.matchLE

NoCall == [op |-> "none"]
NoRet == [err |-> Nil]

\* a call that panicked or never returns is the last one
Alive == ret.err \notin { Diverges, Panics }

Init ==
    /\ mtime = 0
    /\ \E data \in Datasets : \E ix \in SiblingIndexes(data) :
          /\ sibling = ix
          /\ Starts(NewSearcher(PlainPath, data, ix))
    /\ call = NoCall
    /\ ret = NoRet

CallLinesN ==
    /\ Alive
    /\ \E k \in SearchKeys, n \in 1..MaxN :
          \E res \in { LinesN(Searcher, k, n) } :
              /\ Becomes(res.s)
              /\ call' = [op |-> "LinesN", k |-> k, n |-> n]
              /\ ret' = [lines |-> res.lines, err |-> res.err]

CallLines ==
    /\ Alive
    /\ \E k \in SearchKeys :
          \E res \in { Lines(Searcher, k) } :
              /\ Becomes(res.s)
              /\ call' = [op |-> "Lines", k |-> k, n |-> 0]
              /\ ret' = [lines |-> res.lines, err |-> res.err]

CallLine ==
    /\ Alive
    /\ \E k \in SearchKeys :
          \E res \in { Line(Searcher, k) } :
              /\ Becomes(res.s)
              /\ call' = [op |-> "Line", k |-> k, n |-> 1]
              /\ ret' = [line |-> res.line, err |-> res.err]

Next == CallLinesN \/ CallLines \/ CallLine

Spec == Init /\ [][Next]_vars

(***************************************************************************)
(* The compressed dataset: one frame per index block, the index entries    *)
(* giving the offset and length of the frames.                             *)
(***************************************************************************)
\* the bytes of block i of index ix over the plain file data
BlockBytes(data, ix, i) ==
    SubSeq(data, ix.List[i].Offset + 1,
           Min(ix.List[i].Offset + ix.List[i].Length, Len(data)))

\* the frames of blocks 1..i laid end to end
RECURSIVE Frames(_, _, _)
Frames(data, ix, i) ==
    IF i = 0 THEN << >>
    ELSE Frames(data, ix, i - 1) \o ZCompress(BlockBytes(data, ix, i))

\* the index of the compressed file: the keys of ix over the frames
FrameIndex(data, ix) ==
    [ix EXCEPT !.List =
        [i \in 1..Len(ix.List) |->
            IndexEntry(ix.List[i].Key,
                       Len(Frames(data, ix, i - 1)),
                       Len(ZCompress(BlockBytes(data, ix, i))))]]

\* the searcher over the compressed form of data under the index ix
InitZ ==
    /\ mtime = 0
    /\ \E data \in Datasets :
       \E sx \in SiblingIndexes(data) \ { NilIndex } :
       \E zx \in { FrameIndex(data, sx[1]) } :
          /\ sibling = << zx >>
          /\ Starts(NewSearcher(CompressedPath,
                                Frames(data, sx[1], Len(sx[1].List)),
                                << zx >>))
    /\ call = NoCall
    /\ ret = NoRet

SpecZ == InitZ /\ [][Next]_vars

(***************************************************************************)
(* Building an index and writing it beside the dataset.                    *)
(***************************************************************************)
HasHeader(data) == Records(data) # ScanLines(data)

\* the options of a build: either scan mode, the default or a given
\* blocksize, the header declared only when there is one
BuildOptions(data) ==
    { [Blocksize |-> bs, Header |-> h, ScanMode |-> m] :
        bs \in { 0, LineBlocksize, WideBlocksize },
        h \in { FALSE, HasHeader(data) },
        m \in { LineScan, BlockScan } }

InitIndex ==
    /\ mtime = 0
    /\ \E data \in Datasets :
          /\ sibling = NilIndex
          /\ Starts(NewSearcher(PlainPath, data, NilIndex))
    /\ call = NoCall
    /\ ret = NoRet

\* NewIndexOptions followed by Index.Write
BuildIndex ==
    /\ call = NoCall
    /\ \E opt \in BuildOptions(r) :
          \E res \in { NewIndexOptions(filepath, r, opt) } :
              /\ sibling' = IF res.err = Nil THEN << res.index >> ELSE sibling
              /\ call' = [op |-> "NewIndexOptions", opt |-> opt]
              /\ ret' = [err |-> res.err]
    /\ UNCHANGED <<r, mtime, filepath, blocksize, buf, bufOffset, dbuf,
                   dbufOffset, Index, matchLE>>

SpecIndex == InitIndex /\ [][BuildIndex]_vars

(***************************************************************************)
(* The comparators on their own.                                           *)
(***************************************************************************)
CmpBytes == { Comma, 98, 99 }
CmpStrings == UNION { [1..n -> CmpBytes] : n \in 0..MaxCmpLen }

InitCmp ==
    /\ mtime = 0
    /\ sibling = NilIndex
    /\ Starts(NewSearcher(PlainPath, << >>, NilIndex))
    /\ call = NoCall
    /\ ret = NoRet

Compared(op, a, b, c) ==
    /\ call' = [op |-> op, a |-> a, b |-> b]
    /\ ret' = [cmp |-> c]
    /\ UNCHANGED <<r, mtime, sibling, filepath, blocksize, buf, bufOffset,
                   dbuf, dbufOffset, Index, matchLE>>

CallPrefixCompare ==
    \E a \in CmpStrings, b \in CmpStrings :
        Compared("PrefixCompare", a, b, PrefixCompare(a, b))

CallPrefixCompareString ==
    \E a \in CmpStrings, b \in CmpStrings :
        Compared("PrefixCompareString", a, b, PrefixCompareString(a, b))

CallprefixCompareString ==
    \E a \in CmpStrings, b \in CmpStrings :
        Compared("prefixCompareString", a, b, prefixCompareString(a, b))

NextCmp ==
    CallPrefixCompare \/ CallPrefixCompareString \/ CallprefixCompareString

SpecCmp == InitCmp /\ [][NextCmp]_vars

(***************************************************************************)
(* The lookups against a top-to-bottom reading of the dataset.             *)
(***************************************************************************)
\* C1: for a key k that occurs in the dataset, Line(k) on the uncompressed
\* dataset returns, with no error, the first line whose first field is k.
C1_LineIsFirstMatch ==
    (call.op = "Line" /\ Occurs(r, call.k))
        => (ret.err = Nil /\ ret.line = Run(r, call.k)[1])

\* C2: Lines(k) returns exactly the run of lines whose first field is k:
\* every such line, no other, in dataset order, without the newlines.
C2_LinesIsRun ==
    call.op = "Lines" => ret.lines = Run(r, call.k)

\* C3: every line that Line, Lines or LinesN returns for key k has a first
\* field equal to k; a line whose key only starts with k is never returned.
C3_ExactKeyMatch ==
    /\ call.op \in { "Lines", "LinesN" }
          => \A i \in 1..Len(ret.lines) : KeyOf(ret.lines[i]) = call.k
    /\ (call.op = "Line" /\ ret.line # << >>) => KeyOf(ret.line) = call.k

\* a lookup of key b returned lines while the dataset also holds key bc
C3_Witness ==
    /\ call.op \in { "Lines", "LinesN" }
    /\ call.k = <<98>>
    /\ ret.lines # << >>
    /\ Occurs(r, <<98, 99>>)

\* C4: when the run of key k spans two or more index blocks, Lines(k)
\* returns every line of the run exactly once, in order.
C4_RunAcrossBlocks ==
    (call.op = "Lines" /\ Cardinality(BlocksOf(call.k)) >= 2)
        => ret.lines = Run(r, call.k)

\* C5: for n > 0, LinesN(k, n) returns at most n lines.
C5_AtMostN ==
    (call.op = "LinesN" /\ call.n > 0) => Len(ret.lines) <= call.n

\* C6: for a key that does not occur as a first field, Line(k) and Lines(k)
\* return no line and the ErrNotFound sentinel, never another error.
C6_AbsentIsNotFound ==
    (call.op \in { "Line", "Lines" } /\ ~Occurs(r, call.k))
        => ret.err = ErrNotFound

\* the searcher as NewSearcher returns it for the dataset and its index file
Fresh == NewSearcher(filepath, r, sibling)

\* C7: a call's result depends only on its arguments: wherever the call
\* occurs in a sequence of calls, it returns what it returns as the first
\* call on a new searcher.
C7_ResultIndependentOfHistory ==
    /\ call.op \in { "Lines", "LinesN" }
          => ret = [lines |-> LinesN(Fresh, call.k, call.n).lines,
                    err |-> LinesN(Fresh, call.k, call.n).err]
    /\ call.op = "Line"
          => ret = [line |-> Line(Fresh, call.k).line,
                    err |-> Line(Fresh, call.k).err]

\* the blocks of a compressed file, decompressed, up to block i
RECURSIVE PlainBlocks(_, _, _)
PlainBlocks(data, ix, i) ==
    IF i = 0 THEN << >>
    ELSE PlainBlocks(data, ix, i - 1) \o
         Bytes(ZDecompress(MakeBytes(0),
                           SubSeq(data, ix.List[i].Offset + 1,
                                  ix.List[i].Offset + ix.List[i].Length)).buf)

\* the index of the same blocks in the plain file
PlainIndex(data, ix) ==
    [ix EXCEPT !.List =
        [i \in 1..Len(ix.List) |->
            IndexEntry(ix.List[i].Key,
                       Len(PlainBlocks(data, ix, i - 1)),
                       Len(PlainBlocks(data, ix, i))
                           - Len(PlainBlocks(data, ix, i - 1)))]]

\* the same call through the uncompressed path on the same logical dataset
PlainLinesN(k, n) ==
    LinesN(NewSearcher(PlainPath,
                       PlainBlocks(r, Index[1], Len(Index[1].List)),
                       << PlainIndex(r, Index[1]) >>), k, n)

\* C8: on a compressed dataset, LinesN(k, n) for a key k of the dataset
\* returns the lines the uncompressed path returns on the same dataset.
C8_CompressedMatchesPlain ==
    (/\ call.op \in { "Lines", "LinesN" }
     /\ Occurs(PlainBlocks(r, Index[1], Len(Index[1].List)), call.k)
     /\ PlainLinesN(call.k, call.n).err = Nil)
        => (ret.err = Nil /\ ret.lines = PlainLinesN(call.k, call.n).lines)

StartsWith(a, b) == Len(a) >= Len(b) /\ SubSeq(a, 1, Len(b)) = b

\* C9: each prefix comparator returns 0 exactly when a starts with b, a
\* negative value when a is a proper prefix of b, and the string variants
\* agree with PrefixCompare.
C9_PrefixCompareIsPrefixTest ==
    call.op \in { "PrefixCompare", "PrefixCompareString",
                  "prefixCompareString" }
        => /\ (ret.cmp = 0) <=> StartsWith(call.a, call.b)
           /\ (StartsWith(call.b, call.a) /\ Len(call.a) < Len(call.b))
                 => ret.cmp < 0
           /\ ret.cmp = PrefixCompare(call.a, call.b)

\* a string comparator was handed a proper prefix of b and said less
C9_Witness ==
    /\ call.op = "PrefixCompareString"
    /\ StartsWith(call.b, call.a)
    /\ Len(call.a) < Len(call.b)
    /\ Len(call.a) > 0
    /\ ret.cmp = -1

\* C10: the entries of an index built without error partition the data
\* region into whole-record blocks: the first starts at offset 0, or at the
\* second line when there is a header; every entry starts a record; each
\* ends where the next starts; the last ends at the end of the dataset.
C10_IndexPartitionsData ==
    (call.op = "NewIndexOptions" /\ ret.err = Nil)
        => LET ix == sibling[1]
               L == ix.List
           IN  /\ L[1].Offset = IF ix.Header
                                THEN IndexByte(r, NL) + 1 ELSE 0
               /\ \A i \in 1..Len(L) :
                     L[i].Offset = 0 \/ r[L[i].Offset] = NL
               /\ \A i \in 1..(Len(L) - 1) :
                     L[i].Offset + L[i].Length = L[i + 1].Offset
               /\ L[Len(L)].Offset + L[Len(L)].Length = Len(r)

(***************************************************************************)
(* The shape of a built index.                                             *)
(***************************************************************************)
\* an index build has returned without error; its index is sibling[1]
Built == call.op = "NewIndexOptions" /\ ret.err = Nil

\* C11: in an index built with blocksize B every block except possibly the
\* last has a length of at least B bytes.
C11_BlocksAtLeastBlocksize ==
    Built => \A i \in 1..(Len(sibling[1].List) - 1) :
                 sibling[1].List[i].Length >= sibling[1].Blocksize

\* C11, amended: a block holds the records from the first line starting in
\* one chunk of B bytes to the first line starting in a later chunk, so a
\* block may be shorter than B; every block but the last is non-empty and any
\* two consecutive blocks before the last together span at least B bytes.
C11_TwoBlocksSpanBlocksize ==
    Built => LET L == sibling[1].List
                 B == sibling[1].Blocksize
             IN  /\ \A i \in 1..(Len(L) - 1) : L[i].Length > 0
                 /\ \A i \in 1..(Len(L) - 2) :
                       L[i].Length + L[i + 1].Length >= B

\* an index of three or more blocks was built whose first block is shorter
\* than the blocksize
C11_Witness ==
    /\ Built
    /\ Len(sibling[1].List) >= 3
    /\ sibling[1].List[1].Length < sibling[1].Blocksize

\* C12: a block-scan build without the header option, on a dataset of two or
\* more lines: when the first line's key is greater than the second's, the
\* index has Header set and its first entry carries the second line's key
\* and the offset of the second line; otherwise Header stays unset and the
\* first entry is at offset 0.
C12_BlockScanDetectsHeader ==
    (/\ Built
     /\ call.opt.ScanMode = BlockScan
     /\ ~call.opt.Header
     /\ Len(ScanLines(r)) >= 2)
        => LET ls == ScanLines(r)
               ix == sibling[1]
           IN  IF bytesCompare(KeyOf(ls[1]), KeyOf(ls[2])) > 0
               THEN /\ ix.Header
                    /\ ix.List[1].Key = KeyOf(ls[2])
                    /\ ix.List[1].Offset = Len(ls[1]) + 1
               ELSE /\ ~ix.Header
                    /\ ix.List[1].Offset = 0

\* a block-scan build without the header option found a header
C12_Witness ==
    /\ Built
    /\ call.opt.ScanMode = BlockScan
    /\ ~call.opt.Header
    /\ Len(ScanLines(r)) >= 2
    /\ bytesCompare(KeyOf(ScanLines(r)[1]), KeyOf(ScanLines(r)[2])) > 0
    /\ sibling[1].Header

(***************************************************************************)
(* A dataset whose last line has no newline.                               *)
(***************************************************************************)
\* the last line of the dataset matches the key looked up and the file does
\* not end with a newline
LastLineUnterminated ==
    /\ call.op \in { "Line", "Lines" }
    /\ r[Len(r)] # NL
    /\ KeyOf(Records(r)[Len(Records(r))]) = call.k

\* C13: when the last line of the dataset matches k and the file does not
\* end with a newline, Line(k) and Lines(k) return without error, and the
\* final line is returned in full: as the last line of Lines(k), and as
\* Line(k) when it is the only line of its key.
C13_FinalLineWithoutNewline ==
    LastLineUnterminated
        => /\ ret.err = Nil
           /\ call.op = "Lines"
                 => /\ ret.lines # << >>
                    /\ ret.lines[Len(ret.lines)] =
                           Records(r)[Len(Records(r))]
           /\ (call.op = "Line" /\ Len(Run(r, call.k)) = 1)
                 => ret.line = Records(r)[Len(Records(r))]

(***************************************************************************)
(* The index file beside the dataset: written, loaded, and attached when   *)
(* a searcher is constructed.  The model has one dataset, PlainPath in     *)
(* Cwd, and sibling is the content of the index file IndexPath gives for   *)
(* it: NilIndex when the file does not exist, else the fields the YAML     *)
(* body carries.                                                           *)
(***************************************************************************)
ErrIndexNotFound == "index file not found"
ErrIndexExpired == "index file out of date"
ErrIndexPathMismatch == "index file path mismatch"
ErrNoIndexFound == "no index found"

\* the values of the Index option
IndexRequired == 1
IndexCreate == 2
IndexNone == 3

\* the latest second the dataset's mtime reaches
MaxTime == 2

\* Index.Write: the content of the index file afterwards
Write(index) == << index >>

\* LoadIndex without the check of the epoch
LoadIndexAnyEpoch(path) ==
    LET p == Abs(path)
    IN  IF sibling = NilIndex
        THEN [index |-> NilIndex, err |-> ErrIndexNotFound]
        ELSE IF sibling[1].Filepath # p
        THEN [index |-> NilIndex, err |-> ErrIndexPathMismatch]
        ELSE [index |-> sibling, err |-> Nil]

LoadIndex(path) ==
    LET p == Abs(path)
    IN  IF sibling = NilIndex
        THEN [index |-> NilIndex, err |-> ErrIndexNotFound]
        ELSE IF sibling[1].Filepath # p
        THEN [index |-> NilIndex, err |-> ErrIndexPathMismatch]
        ELSE IF epoch(p) > sibling[1].Epoch
        THEN [index |-> NilIndex, err |-> ErrIndexExpired]
        ELSE [index |-> << [sibling[1] EXCEPT
                              !.Version = IF @ = 0 THEN 1 ELSE @] >>,
              err |-> Nil]

\* NewIndexLoad, as NewSearcher uses it: the sibling index if it loads
NewIndexLoad(path) == LoadIndex(path)

\* setOptions, for the options the model carries: [Blocksize, MatchLE,
\* Index], a zero standing for an option left unset
setOptions(s, options) ==
    [s EXCEPT !.blocksize = IF options.Blocksize > 0 THEN options.Blocksize
                            ELSE @,
              !.matchLE = IF options.MatchLE THEN TRUE ELSE @]

\* the searcher's indexOpt after setOptions on a new searcher
indexOpt(options) ==
    IF options.Index > 0 /\ options.Index <= 3 THEN options.Index ELSE 0

\* NewSearcherOptions on the dataset at path holding data: the searcher
\* returned (none when err is set) and the index file afterwards
NewSearcherOptions(path, data, options) ==
    LET s0 == setOptions(NewSearcher(path, data, NewIndexLoad(path).index),
                         options)
        s1 == IF s0.Index # NilIndex /\ indexOpt(options) = IndexNone
              THEN [s0 EXCEPT !.Index = NilIndex] ELSE s0
    IN  IF s1.Index = NilIndex /\ indexOpt(options) = IndexRequired
        THEN [s |-> s1, file |-> sibling, err |-> ErrNoIndexFound]
        ELSE IF s1.Index = NilIndex /\ indexOpt(options) = IndexCreate
        THEN Eval(NewIndex(path, data), LAMBDA ni :
                 IF ni.err # Nil
                 THEN [s |-> s1, file |-> sibling, err |-> ni.err]
                 ELSE [s |-> [s1 EXCEPT !.Index = << ni.index >>],
                       file |-> Write(ni.index), err |-> Nil])
        ELSE [s |-> s1, file |-> sibling, err |-> Nil]

\* the options a searcher is constructed with
SearcherOptions ==
    { [Blocksize |-> bs, MatchLE |-> FALSE, Index |-> ix] :
        bs \in { 0, LineBlocksize },
        ix \in { 0, IndexRequired, IndexCreate, IndexNone } }

\* the dataset under its own path elsewhere, from where the dataset and its
\* index file may have been copied
ElsewherePath == "/e/data.csv"

\* the index files found beside the dataset at the start: none, one built
\* for it, or one built for the copy elsewhere
FoundIndexFiles(data) ==
    { f \in SiblingIndexes(data) \cup
            { << [sx[1] EXCEPT !.Filepath = ElsewherePath] >> :
                  sx \in SiblingIndexes(data) \ { NilIndex } } :
        TRUE }

\* the datasets of the index file lifecycle: those of one record
FileDatasets == { d \in Datasets : Len(Records(d)) = 1 }

InitFiles ==
    /\ mtime = 0
    /\ \E data \in FileDatasets : \E f \in FoundIndexFiles(data) :
          /\ sibling = f
          /\ Starts(NewSearcher(PlainPath, data, NewIndexLoad(PlainPath).index))
    /\ call = NoCall
    /\ ret = NoRet

\* the dataset is touched: its mtime moves to a later second
Touch ==
    /\ Alive
    /\ mtime < MaxTime
    /\ mtime' = mtime + 1
    /\ call' = [op |-> "Touch"]
    /\ ret' = NoRet
    /\ UNCHANGED <<r, sibling, filepath, blocksize, buf, bufOffset, dbuf,
                   dbufOffset, Index, matchLE>>

\* NewIndexOptions followed by Index.Write
WriteIndex ==
    /\ Alive
    /\ \E opt \in IndexBuilds :
          \E res \in { NewIndexOptions(filepath, r, opt) } :
              /\ sibling' = IF res.err = Nil THEN Write(res.index)
                            ELSE sibling
              /\ call' = [op |-> "Write", opt |-> opt]
              /\ ret' = [err |-> res.err]
    /\ UNCHANGED <<r, mtime, filepath, blocksize, buf, bufOffset, dbuf,
                   dbufOffset, Index, matchLE>>

CallLoadIndex ==
    /\ Alive
    /\ \E res \in { LoadIndex(filepath) } :
          /\ call' = [op |-> "LoadIndex"]
          /\ ret' = [index |-> res.index, err |-> res.err]
    /\ UNCHANGED <<r, mtime, sibling, filepath, blocksize, buf, bufOffset,
                   dbuf, dbufOffset, Index, matchLE>>

\* a searcher is constructed over the dataset; when construction fails
\* there is no new searcher, and the fields stay those of the one before
CallNewSearcherOptions ==
    /\ Alive
    /\ \E options \in SearcherOptions :
          \E res \in { NewSearcherOptions(PlainPath, r, options) } :
              /\ sibling' = res.file
              /\ call' = [op |-> "NewSearcherOptions", options |-> options,
                          loaded |-> NewIndexLoad(PlainPath).index,
                          file |-> sibling]
              /\ ret' = [err |-> res.err]
              /\ r' = r
              /\ mtime' = mtime
              /\ IF res.err = Nil
                 THEN /\ filepath' = res.s.filepath
                      /\ blocksize' = res.s.blocksize
                      /\ buf' = res.s.buf
                      /\ bufOffset' = res.s.bufOffset
                      /\ dbuf' = res.s.dbuf
                      /\ dbufOffset' = res.s.dbufOffset
                      /\ Index' = res.s.Index
                      /\ matchLE' = res.s.matchLE
                 ELSE UNCHANGED <<filepath, blocksize, buf, bufOffset, dbuf,
                                  dbufOffset, Index, matchLE>>

NextFiles ==
    Touch \/ WriteIndex \/ CallLoadIndex \/ CallNewSearcherOptions
        \/ CallLinesN

SpecFiles == InitFiles /\ [][NextFiles]_vars

(***************************************************************************)
(* Claims about the index file.                                            *)
(***************************************************************************)
\* the index file exists, names the dataset's absolute path, and is no older
\* than the dataset
Loadable ==
    /\ sibling # NilIndex
    /\ sibling[1].Filepath = Abs(filepath)
    /\ mtime <= sibling[1].Epoch

\* C14: LoadIndex returns the index of the sibling file exactly when that
\* file exists, records the dataset's absolute path and has an epoch no
\* earlier than the dataset's mtime; otherwise it returns no index and
\* IndexNotFound, IndexPathMismatch or IndexExpired, in that order of
\* checks.  An index just written loads, and once the dataset's mtime is
\* later than the epoch written, loading fails with IndexExpired.
C14_LoadIndexChecks ==
    /\ call.op = "LoadIndex" =>
          IF Loadable
          THEN ret.err = Nil /\ ret.index = sibling
          ELSE /\ ret.index = NilIndex
               /\ ret.err = IF sibling = NilIndex THEN ErrIndexNotFound
                            ELSE IF sibling[1].Filepath # Abs(filepath)
                            THEN ErrIndexPathMismatch
                            ELSE ErrIndexExpired
    /\ (call.op = "Write" /\ ret.err = Nil) =>
          Loadable /\ sibling[1].Epoch = mtime

\* a load that failed because the dataset was touched after the index was
\* written
C14_Witness ==
    /\ call.op = "LoadIndex"
    /\ ret.err = ErrIndexExpired
    /\ sibling # NilIndex
    /\ sibling[1].Filepath = Abs(filepath)
    /\ mtime > sibling[1].Epoch

\* C15: after NewSearcherOptions, with index = None the searcher has no
\* index even when a loadable sibling exists; with Require and no loadable
\* sibling construction fails with NoIndexFound; with Create and no loadable
\* sibling an index is built, written to the sibling file, and the same
\* index attached; a loadable sibling index is never rewritten.
C15_IndexOptionSemantics ==
    call.op = "NewSearcherOptions" =>
        /\ (call.options.Index = IndexNone /\ ret.err = Nil) =>
              Index = NilIndex
        /\ (call.options.Index = IndexRequired /\ call.loaded = NilIndex) =>
              ret.err = ErrNoIndexFound
        /\ (call.options.Index = IndexCreate /\ call.loaded = NilIndex) =>
              /\ ret.err = Nil
              /\ Index # NilIndex
              /\ sibling = Index
        /\ call.loaded # NilIndex => sibling = call.file

\* C16: when a searcher configured with blocksize B builds an index, under
\* index = Create at construction or on the first LinesN call without an
\* index, the index has blocksize B.
C16_BuildsWithSearcherBlocksize ==
    [][/\ (/\ call'.op = "NewSearcherOptions"
           /\ call'.loaded = NilIndex
           /\ ret'.err = Nil
           /\ Index' # NilIndex)
              => Index'[1].Blocksize = blocksize'
       /\ (/\ call'.op = "LinesN"
           /\ Index = NilIndex
           /\ Index' # NilIndex)
              => Index'[1].Blocksize = blocksize']_vars

(***************************************************************************)
(* The block locators on their own, over the indexes NewIndexOptions       *)
(* builds for the datasets.                                                *)
(***************************************************************************)
InitLocate ==
    /\ mtime = 0
    /\ \E data \in Datasets :
       \E opt \in { o \in BuildOptions(data) :
                      NewIndexOptions(PlainPath, data, o).err = Nil } :
       \E ix \in { NewIndexOptions(PlainPath, data, opt).index } :
          /\ sibling = << ix >>
          /\ Starts(NewSearcher(PlainPath, data, << ix >>))
    /\ call = NoCall
    /\ ret = NoRet

CallblockEntryLE ==
    \E key \in SearchKeys :
        \E res \in { blockEntryLE(Index[1], key) } :
            /\ call' = [op |-> "blockEntryLE", key |-> key]
            /\ ret' = [e |-> res.e, entry |-> res.entry, err |-> res.err]
            /\ UNCHANGED <<r, mtime, sibling, filepath, blocksize, buf,
                           bufOffset, dbuf, dbufOffset, Index, matchLE>>

CallblockEntryLT ==
    \E key \in SearchKeys :
        \E res \in { blockEntryLT(Index[1], key) } :
            /\ call' = [op |-> "blockEntryLT", key |-> key]
            /\ ret' = [e |-> res.e, entry |-> res.entry, err |-> Nil]
            /\ UNCHANGED <<r, mtime, sibling, filepath, blocksize, buf,
                           bufOffset, dbuf, dbufOffset, Index, matchLE>>

\* the locator as scanIndexedLines and scanCompressedLines call it
CallBlockEntry ==
    \E key \in SearchKeys :
        \E res \in { BlockEntry(Index[1], key) } :
            /\ call' = [op |-> "BlockEntry", key |-> key]
            /\ ret' = [e |-> res.e, entry |-> res.entry, err |-> Nil]
            /\ UNCHANGED <<r, mtime, sibling, filepath, blocksize, buf,
                           bufOffset, dbuf, dbufOffset, Index, matchLE>>

NextLocate == CallblockEntryLE \/ CallblockEntryLT \/ CallBlockEntry

SpecLocate == InitLocate /\ [][NextLocate]_vars

\* the 0-based positions of the entries of list whose key compares with key
\* as one of cs under cmp
Positions(list, key, cmp(_, _), cs) ==
    { i \in 0..(Len(list) - 1) : cmp(list[i + 1].Key, key) \in cs }

\* the largest of a non-empty set of positions
Last(ps) == CHOOSE i \in ps : \A j \in ps : j <= i

\* C17: blockEntryLE fails with IndexEntryNotFound exactly when the first
\* entry's key is strictly greater than the query under the prefix
\* comparator; otherwise it returns the position and entry of the last entry
\* whose key compares less than or equal to the query, as a linear scan
\* finds it.
C17_blockEntryLEIsLinearScan ==
    call.op = "blockEntryLE" =>
        LET list == Index[1].List
            le   == Positions(list, call.key, prefixCompareString, { -1, 0 })
        IN  IF prefixCompareString(list[1].Key, call.key) > 0
            THEN ret.err = ErrIndexEntryNotFound
            ELSE /\ ret.err = Nil
                 /\ ret.e = Last(le)
                 /\ ret.entry = list[Last(le) + 1]

\* C18: blockEntryLT returns the position and entry of the last entry whose
\* key compares strictly less than the query under the prefix comparator,
\* and position 0 with the first entry when there is none, as a linear scan
\* finds it.
C18_blockEntryLTIsLinearScan ==
    call.op = "blockEntryLT" =>
        LET list == Index[1].List
            lt   == Positions(list, call.key, prefixCompare, { -1 })
            e    == IF lt = { } THEN 0 ELSE Last(lt)
        IN  ret.e = e /\ ret.entry = list[e + 1]

\* the search passed over entries and answered with one past the first
C18_Witness ==
    /\ call.op = "blockEntryLT"
    /\ Len(Index[1].List) >= 3
    /\ ret.e >= 1
    /\ ret.e < Len(Index[1].List) - 1

(***************************************************************************)
(* Building an index over files whose lines are in any order.              *)
(***************************************************************************)
\* the most lines of a file of unordered lines
MaxSortLines == 3

UnorderedDatasets ==
    { Join(ls, nl) :
        ls \in UNION { [1..n -> LineSet] : n \in 1..MaxSortLines },
        nl \in BOOLEAN }

InitSort ==
    /\ mtime = 0
    /\ \E data \in UnorderedDatasets :
          /\ sibling = NilIndex
          /\ Starts(NewSearcher(PlainPath, data, NilIndex))
    /\ call = NoCall
    /\ ret = NoRet

SpecSort == InitSort /\ [][BuildIndex]_vars

\* the 1-based positions, among the lines ls, of the records whose key is
\* less than the key of the record before
OutOfOrder(ls) ==
    { i \in 2..Len(ls) : bytesCompare(KeyOf(ls[i - 1]), KeyOf(ls[i])) > 0 }

\* C19: a line-scan build fails with a sort violation whenever a record's
\* key is less than that of the record before it, except on the second
\* record of the file when no header was declared: then the build sets the
\* header flag, drops the first line's entry and goes on.  A record out of
\* order at the third or a later position always fails the build.
C19_SortViolationExceptSecondRecord ==
    (/\ call.op = "NewIndexOptions"
     /\ call.opt.ScanMode = LineScan
     /\ ret.err # ErrTooLong)
        => LET ls   == ScanLines(r)
               recs == IF call.opt.Header THEN Tail(ls) ELSE ls
               bad  == OutOfOrder(recs)
           IN  /\ (\E i \in bad : call.opt.Header \/ i > 2)
                     => ret.err = ErrSortViolation
               /\ (bad = { 2 } /\ ~call.opt.Header)
                     => /\ ret.err = Nil
                        /\ sibling[1].Header
                        /\ sibling[1].List[1].Offset = Len(ls[1]) + 1

(***************************************************************************)
(* The line scanner on its own: scanLineOffset over a block that is the    *)
(* whole dataset, by a searcher constructed with or without MatchLE.       *)
(***************************************************************************)
ScanOptions ==
    { [Blocksize |-> 0, MatchLE |-> le, Index |-> 0] : le \in BOOLEAN }

InitScan ==
    /\ mtime = 0
    /\ \E data \in Datasets, options \in ScanOptions :
          /\ sibling = NilIndex
          /\ Starts(NewSearcherOptions(PlainPath, data, options).s)
    /\ call = NoCall
    /\ ret = NoRet

\* scanLineOffset(buf, k) with buf the bytes of the dataset
CallscanLineOffset ==
    /\ Alive
    /\ \E k \in SearchKeys :
          \E res \in { scanLineOffset(Searcher, [mem |-> r, len |-> Len(r)],
                                      k) } :
              /\ call' = [op |-> "scanLineOffset", k |-> k]
              /\ ret' = [offset |-> res.offset, terminate |-> res.terminate,
                         err |-> IF res.panic THEN Panics ELSE Nil]
    /\ UNCHANGED <<r, mtime, sibling, filepath, blocksize, buf, bufOffset,
                   dbuf, dbufOffset, Index, matchLE>>

SpecScan == InitScan /\ [][CallscanLineOffset]_vars

\* the offsets in data at which a line starts
LineStarts(data) ==
    { o \in 0..(Len(data) - 1) : o = 0 \/ data[o] = NL }

\* how the line of data at offset o compares with the target k: its first
\* Len(k) bytes, or what the data has of them
CompareAt(data, o, k) ==
    PrefixCompare(Slice(data, o, Min(o + Len(k), Len(data))), k)

\* the line starts the scan passes over: those with only lines comparing
\* less before them
Scanned(data, k) ==
    { o \in LineStarts(data) :
        \A p \in LineStarts(data) : p < o => CompareAt(data, p, k) < 0 }

\* C20: when no line starts with the target, scanLineOffset in match-LE
\* mode returns the offset of the last line scanned that compares less than
\* the target, also when the buffer's last line has no newline, and -1
\* without match-LE; in both modes terminate is true exactly when a line
\* comparing greater was reached.
C20_scanLineOffsetMatchLE ==
    call.op = "scanLineOffset" =>
        LET less    == { o \in Scanned(r, call.k) :
                           CompareAt(r, o, call.k) < 0 }
            equal   == { o \in Scanned(r, call.k) :
                           CompareAt(r, o, call.k) = 0 }
            greater == { o \in Scanned(r, call.k) :
                           CompareAt(r, o, call.k) > 0 }
        IN  /\ equal = { } =>
                  ret.offset = IF matchLE /\ less # { } THEN Last(less)
                               ELSE -1
            /\ ret.terminate <=> greater # { }

(***************************************************************************)
(* The block loads on their own: readBlockEntry and decompressBlockEntry   *)
(* for the entries of the index, in any order, on a searcher over a plain  *)
(* or a compressed dataset.                                                *)
(***************************************************************************)
InitLoads ==
    /\ Init \/ InitZ
    /\ Index # NilIndex

CallreadBlockEntry ==
    \E i \in 1..Len(Index[1].List) :
        \E res \in { readBlockEntry(Searcher, Index[1].List[i]) } :
            /\ Becomes(res.s)
            /\ call' = [op |-> "readBlockEntry", entry |-> Index[1].List[i],
                        cached |-> bufOffset = Index[1].List[i].Offset]
            /\ ret' = [err |-> res.err]

CalldecompressBlockEntry ==
    \E i \in 1..Len(Index[1].List) :
        \E res \in { decompressBlockEntry(Searcher, Index[1].List[i]) } :
            /\ Becomes(res.s)
            /\ call' = [op |-> "decompressBlockEntry",
                        entry |-> Index[1].List[i],
                        cached |-> dbufOffset = Index[1].List[i].Offset]
            /\ ret' = [err |-> res.err]

NextLoads == CallreadBlockEntry \/ CalldecompressBlockEntry

SpecLoads == InitLoads /\ [][NextLoads]_vars

\* the bytes of the dataset that entry names, all of them being there
EntryBytes(entry) ==
    SubSeq(r, entry.Offset + 1, entry.Offset + entry.Length)

HoldsInFull(entry) ==
    /\ entry.Offset + entry.Length <= Len(r)
    /\ Bytes(buf) = EntryBytes(entry)

HoldsDecompressed(entry) ==
    /\ entry.Offset + entry.Length <= Len(r)
    /\ ZDecompress(MakeBytes(0), EntryBytes(entry)).err = Nil
    /\ Bytes(dbuf) = Bytes(ZDecompress(MakeBytes(0), EntryBytes(entry)).buf)

\* C21: after any sequence of block loads, bufOffset is -1 or the offset of
\* the index entry whose bytes buf holds in full, and dbufOffset is -1 or
\* the offset of the entry whose decompressed bytes dbuf holds; a load for
\* the offset already cached returns without error and changes nothing.
C21_BufferOffsetsNameTheirBlocks ==
    /\ [](/\ bufOffset # -1 =>
                \E i \in 1..Len(Index[1].List) :
                    /\ Index[1].List[i].Offset = bufOffset
                    /\ HoldsInFull(Index[1].List[i])
          /\ dbufOffset # -1 =>
                \E i \in 1..Len(Index[1].List) :
                    /\ Index[1].List[i].Offset = dbufOffset
                    /\ HoldsDecompressed(Index[1].List[i]))
    /\ [][(\/ /\ call'.op = "readBlockEntry"
              /\ bufOffset = call'.entry.Offset
           \/ /\ call'.op = "decompressBlockEntry"
              /\ dbufOffset = call'.entry.Offset)
             => /\ ret'.err = Nil
                /\ UNCHANGED <<buf, bufOffset, dbuf, dbufOffset>>]_vars

\* a block was loaded, a load of another block fell short, and the offset
\* remembered is -1 again
C21_Witness ==
    /\ call.op = "readBlockEntry"
    /\ ret.err = ErrShortRead
    /\ bufOffset = -1
    /\ Len(Index[1].List) >= 2
    /\ Bytes(buf) # << >>

(***************************************************************************)
(* Claims about termination and about the bytes a scan reads.              *)
(***************************************************************************)
\* C22: every LinesN call terminates, on the uncompressed and on the
\* compressed path: the spill loop moves to strictly later index entries
\* and stops at the first block that reports terminate or when no next
\* entry exists.
C22_LinesNTerminates ==
    call.op \in { "LinesN", "Lines", "Line" } => ret.err # Diverges

\* C23: a block-scan index build terminates on every dataset, with an index
\* or an error: each retry inside processBlock advances blockPosition or
\* ends the build.
C23_BlockScanTerminates ==
    (call.op = "NewIndexOptions" /\ call.opt.ScanMode = BlockScan)
        => ret.err # Diverges

\* C24: scanning a block, scanLineOffset reads only bytes of the block: at
\* every line start offset + len(target) <= len(buf), also when the last
\* line is shorter than the target.  The buffer here has no capacity beyond
\* its length, so a prefix taken past the end of the block is a slice out
\* of range.
C24_PrefixWithinBlock ==
    call.op = "scanLineOffset" => ret.err # Panics

\* the offsets in data of the first bytes of the lines whose key is k, the
\* header line apart
KeyOffsets(data, k) ==
    { o \in LineStarts(data) :
        /\ \E l \in 1..Len(Records(data)) :
              /\ KeyOf(Records(data)[l]) = k
              /\ Len(data) >= o + Len(Records(data)[l])
              /\ SubSeq(data, o + 1, o + Len(Records(data)[l]))
                    = Records(data)[l]
              /\ (o + Len(Records(data)[l]) = Len(data)
                  \/ data[o + Len(Records(data)[l]) + 1] = NL)
        /\ (o > 0 \/ Records(data) = ScanLines(data)) }

====
